---- MODULE Spec2Model ----
(***************************************************************************)
(* Bookmark synchronisation engine of fftemplates (src/src/bookmarks.rs),  *)
(* driven by run (src/src/main.rs).                                        *)
(*                                                                         *)
(* Two SQLite stores are modelled as three tables each, a table being a    *)
(* set of rows: the snapshot store (s...), which the engine only reads,    *)
(* and the destination (original) store (d...), into which it inserts.     *)
(* A row keeps the columns the engine reads or rewrites (id, fk, parent,   *)
(* origin_id, prefix, host, frecency); guid stands for the columns that    *)
(* are copied through untouched.                                           *)
(*                                                                         *)
(* HashMap iteration order is unspecified: a stage that walks a map picks  *)
(* any key that is still to do.  The stores are assumed reachable, so the  *)
(* only errors are the ones the code raises from the data: a NULL max(id)  *)
(* read into an i64, and the two missing-reference errors.                 *)
(***************************************************************************)
EXTENDS Integers, Sequences, FiniteSets, TLC

\* ------------------------------------------------------------------ bounds

\* largest bookmark id the snapshot store may hold
MaxSnapBm == 3
\* the destination bookmarks table holds ids 1..n, n <= MaxDestBm
MaxDestBm == 2
\* the destination places table holds ids 1..n, n <= MaxDestPl
MaxDestPl == 1

\* SQL NULL / Option::None of an integer column (real ids are >= 1)
NULL == 0

\* place ids of the snapshot store, origin ids of both stores
PlaceIds == {1, 2}
OriginIds == {1, 2}

\* natural keys (prefix, host, frecency) of origins
Prefixes == {"https://"}
Hosts == {"example.com"}
Frecencies == {10, 20, 30}
Keys == [prefix : Prefixes, host : Hosts, frecency : Frecencies]

\* ------------------------------------------------------------------ rows

Bookmark(id, fk, parent, guid) ==
    [id |-> id, fk |-> fk, parent |-> parent, guid |-> guid]

Place(id, guid, origin_id) ==
    [id |-> id, guid |-> guid, origin_id |-> origin_id]

Origin(id, key) ==
    [id |-> id, prefix |-> key.prefix, host |-> key.host, frecency |-> key.frecency]

\* Option<T>
None == [some |-> FALSE, val |-> <<>>]
Some(v) == [some |-> TRUE, val |-> v]

\* ------------------------------------------------------------------ SQL helpers

Ids(table) == {r.id : r \in table}

MaxOf(S) == CHOOSE m \in S : \A x \in S : x <= m

MinOf(S) == CHOOSE m \in S : \A x \in S : m <= x

\* select max(id) from <table>: NULL on an empty table
SqlMaxId(table) == IF table = {} THEN NULL ELSE MaxOf(Ids(table))

\* the rows of a table in ascending id order (order by id)
RECURSIVE OrderById(_)
OrderById(table) ==
    IF table = {} THEN <<>>
    ELSE LET first == CHOOSE r \in table : r.id = MinOf(Ids(table))
         IN  <<first>> \o OrderById(table \ {first})

\* select ... where id = :id; the loop over the result keeps the last row
RowWithId(table, id) == CHOOSE r \in table : r.id = id

\* ------------------------------------------------------------------ fetch

\* mutant: order by id asc limit 1
get_first_bookmark(bookmarks) ==
    IF bookmarks = {} THEN None
    ELSE Some(CHOOSE b \in bookmarks : b.id = MinOf(Ids(bookmarks)))

\* order by id desc limit 1
get_latest_bookmark(bookmarks) ==
    IF bookmarks = {} THEN None
    ELSE Some(CHOOSE b \in bookmarks : b.id = MaxOf(Ids(bookmarks)))

\* mutant: the lower bound taken inclusive, in the guard and in the query
get_bookmarks_from(bookmarks, first_bookmark) ==
    LET latest == get_latest_bookmark(bookmarks)
    IN  IF ~latest.some THEN None
        ELSE IF first_bookmark.id > latest.val.id THEN None
        ELSE LET rows == OrderById({b \in bookmarks :
                              b.id >= first_bookmark.id /\ b.id <= latest.val.id})
             IN  IF Len(rows) = 0 THEN None ELSE Some(rows)

\* mutant: the upper bound taken exclusive (id < :high_id)
get_bookmarks_before_latest(bookmarks, first_bookmark) ==
    LET latest == get_latest_bookmark(bookmarks)
    IN  IF ~latest.some THEN None
        ELSE IF first_bookmark.id >= latest.val.id THEN None
        ELSE LET rows == OrderById({b \in bookmarks :
                              b.id > first_bookmark.id /\ b.id < latest.val.id})
             IN  IF Len(rows) = 0 THEN None ELSE Some(rows)

get_bookmarks_between_two(bookmarks, first_bookmark) ==
    LET latest == get_latest_bookmark(bookmarks)
    IN  IF ~latest.some THEN None
        ELSE IF first_bookmark.id >= latest.val.id THEN None
        ELSE LET rows == OrderById({b \in bookmarks :
                              b.id > first_bookmark.id /\ b.id <= latest.val.id})
             IN  IF Len(rows) = 0 THEN None ELSE Some(rows)

\* mutant: the map is returned as it is, also when it holds no entry
get_new_places_Present(places, bookmarks) ==
    LET fks == {bookmarks[i].fk : i \in 1..Len(bookmarks)} \ {NULL}
        found == {k \in fks : k \in Ids(places)}
        map == [k \in found |-> RowWithId(places, k)]
    IN  Some(map)

\* a map keyed by fk, one entry per referenced place row that exists
get_new_places(places, bookmarks) ==
    LET fks == {bookmarks[i].fk : i \in 1..Len(bookmarks)} \ {NULL}
        found == {k \in fks : k \in Ids(places)}
        map == [k \in found |-> RowWithId(places, k)]
    IN  IF Cardinality(DOMAIN map) = 0 THEN None ELSE Some(map)

\* mutant: the origin is stored under the key of the place that references it
get_new_origins_ByPlace(origins, places) ==
    LET found == {k \in DOMAIN places : /\ places[k].origin_id # NULL
                                        /\ places[k].origin_id \in Ids(origins)}
        map == [k \in found |-> RowWithId(origins, places[k].origin_id)]
    IN  IF Cardinality(DOMAIN map) = 0 THEN None ELSE Some(map)

\* a map keyed by origin_id, one entry per referenced origin row that exists
get_new_origins(origins, places) ==
    LET oids == {places[k].origin_id : k \in DOMAIN places} \ {NULL}
        found == {k \in oids : k \in Ids(origins)}
        map == [k \in found |-> RowWithId(origins, k)]
    IN  IF Cardinality(DOMAIN map) = 0 THEN None ELSE Some(map)

\* (bookmarks, places, origins), each an Option
get_new_entries(bookmarks, places, origins, first_bookmark) ==
    LET new_bookmarks == get_bookmarks_between_two(bookmarks, first_bookmark)
    IN  IF ~new_bookmarks.some THEN <<None, None, None>>
        ELSE LET new_places == get_new_places(places, new_bookmarks.val)
             IN  IF ~new_places.some THEN <<new_bookmarks, None, None>>
                 ELSE LET new_origins == get_new_origins(origins, new_places.val)
                      IN  IF ~new_origins.some
                          THEN <<new_bookmarks, new_places, None>>
                          ELSE <<new_bookmarks, new_places, new_origins>>

\* ------------------------------------------------------------------ state

VARIABLES
    sBookmarks, sPlaces, sOrigins,    \* snapshot store (read only)
    dBookmarks, dPlaces, dOrigins,    \* destination store
    bookmarks_sync,                   \* config.bookmarks_sync
    pc,                               \* position in run / insert_new_entries
    latest_bookmark,                  \* the anchor read before the launch
    new_bookmarks, new_places, new_origins,   \* the fetched delta, reconciled in place
    todo,                             \* keys still to visit in the current map walk
    idx,                              \* next position in the bookmark vector
    result,                           \* outcome of each stage
    failed,                           \* the snapshot key at which a stage returned Err
    log,                              \* history: every insert, in order
    original,                         \* history: the destination store before the run
    previous                          \* history: how the previous run ended, if any

vars == <<sBookmarks, sPlaces, sOrigins, dBookmarks, dPlaces, dOrigins,
          bookmarks_sync, pc, latest_bookmark, new_bookmarks, new_places,
          new_origins, todo, idx, result, failed, log, original, previous>>

snapshot == <<sBookmarks, sPlaces, sOrigins>>
destination == <<dBookmarks, dPlaces, dOrigins>>
delta == <<new_bookmarks, new_places, new_origins>>

Stages == {"origins", "places", "bookmarks", "entries"}

\* ------------------------------------------------------------------ initial states

\* The origins tables of the destination: every table with distinct ids drawn
\* from OriginIds, up to a renaming of the natural keys (the engine only
\* compares keys for equality, and the snapshot's keys range over all of Keys).
KeyOf(frecency) ==
    [prefix |-> "https://", host |-> "example.com", frecency |-> frecency]

DestOriginTables ==
    { {},
      {Origin(1, KeyOf(10))},
      {Origin(2, KeyOf(10))},
      {Origin(1, KeyOf(10)), Origin(2, KeyOf(10))},
      {Origin(1, KeyOf(10)), Origin(2, KeyOf(20))} }

\* The destination holds bookmarks 1..nb and places 1..np and one of the origins
\* tables above.  The snapshot started as a copy of it and was then changed
\* by the application: it holds any set of bookmarks above nb, and of the old
\* bookmarks it still holds 1..so (the old rows are read only when there is no
\* new one, so only then some are taken away).  Only bookmarks above the anchor
\* are ever fetched, so only these carry a place reference, and the snapshot
\* holds only the place and origin rows that can be fetched through them (a
\* reference may also dangle: its row is then not in the snapshot).
Init ==
    \E nb \in 0..MaxDestBm, np \in 0..MaxDestPl :
    \E dOr \in DestOriginTables :
    \E sNew \in SUBSET ((nb + 1)..MaxSnapBm) :
    \E so \in IF sNew = {} THEN 0..nb ELSE {nb} :
    \E fk \in [sNew -> IF nb = 0 THEN {NULL} ELSE {NULL} \cup PlaceIds] :
    \E sPids \in SUBSET ({fk[b] : b \in sNew} \ {NULL}) :
    \E oid \in [sPids -> {NULL} \cup OriginIds] :
    \E sOids \in SUBSET ({oid[p] : p \in sPids} \ {NULL}) :
    \E sKey \in [sOids -> Keys] :
        /\ dBookmarks = {Bookmark(b, NULL, NULL, <<"old", b>>) : b \in 1..nb}
        /\ dPlaces = {Place(p, <<"old", p>>, NULL) : p \in 1..np}
        /\ dOrigins = dOr
        /\ sBookmarks =
              {Bookmark(b, NULL, NULL, <<"old", b>>) : b \in 1..so}
              \cup {Bookmark(b, fk[b], b - 1, <<"new", b>>) : b \in sNew}
        /\ sPlaces = {Place(p, <<"new", p>>, oid[p]) : p \in sPids}
        /\ sOrigins = {Origin(o, sKey[o]) : o \in sOids}
        /\ bookmarks_sync \in BOOLEAN
        /\ pc = "anchor"
        /\ latest_bookmark = None
        /\ new_bookmarks = None
        /\ new_places = None
        /\ new_origins = None
        /\ todo = {}
        /\ idx = 1
        /\ result = [s \in Stages |-> "pending"]
        /\ failed = [s \in Stages |-> NULL]
        /\ log = <<>>
        /\ original = [bookmarks |-> dBookmarks, places |-> dPlaces,
                       origins |-> dOrigins]
        /\ previous = None

\* ------------------------------------------------------------------ run (main.rs)

\* mutant: the anchor is read whether sync is enabled or not
ReadAnchor_Always ==
    /\ pc = "anchor"
    /\ latest_bookmark' = get_latest_bookmark(dBookmarks)
    /\ pc' = "launch"
    /\ UNCHANGED <<snapshot, destination, bookmarks_sync, delta, todo, idx,
                   result, failed, log, original, previous>>

\* run: the anchor is read from the original store when sync is enabled
ReadAnchor ==
    /\ pc = "anchor"
    /\ latest_bookmark' = IF bookmarks_sync THEN get_latest_bookmark(dBookmarks) ELSE None
    /\ pc' = "launch"
    /\ UNCHANGED <<snapshot, destination, bookmarks_sync, delta, todo, idx,
                   result, failed, log, original, previous>>

\* run: execute_cmd returns when the application has exited
Launch ==
    /\ pc = "launch"
    /\ pc' = IF bookmarks_sync /\ latest_bookmark.some THEN "fetch" ELSE "done"
    /\ UNCHANGED <<snapshot, destination, bookmarks_sync, latest_bookmark, delta,
                   todo, idx, result, failed, log, original, previous>>

\* mutant: insert_new_entries begins with the bookmark stage
Fetch_BookmarksFirst ==
    /\ pc = "fetch"
    /\ LET got == get_new_entries(sBookmarks, sPlaces, sOrigins, latest_bookmark.val)
       IN  /\ new_bookmarks' = got[1]
           /\ new_places' = got[2]
           /\ new_origins' = got[3]
           /\ todo' = {}
    /\ pc' = "bookmarks"
    /\ UNCHANGED <<snapshot, destination, bookmarks_sync, latest_bookmark, idx,
                   result, failed, log, original, previous>>

\* run: get_new_entries on the snapshot store, then insert_new_entries begins
Fetch ==
    /\ pc = "fetch"
    /\ LET got == get_new_entries(sBookmarks, sPlaces, sOrigins, latest_bookmark.val)
       IN  /\ new_bookmarks' = got[1]
           /\ new_places' = got[2]
           /\ new_origins' = got[3]
           /\ todo' = IF got[3].some THEN DOMAIN got[3].val ELSE {}
    /\ pc' = "origins"
    /\ UNCHANGED <<snapshot, destination, bookmarks_sync, latest_bookmark, idx,
                   result, failed, log, original, previous>>

\* ------------------------------------------------------------------ reconcilers

OK == "ok"
ErrNullMax == "InvalidColumnType"
ErrOrigin == "unable to find origin from place"
ErrPlace == "unable to find fk place from bookmark"

\* mutant: the id is reallocated only when it collides with the table
AllocId_OnCollision(max_id, id) == IF max_id >= id THEN max_id + 1 ELSE id

\* if max_id != x.id - 1 { x.id = max_id; x.id += 1 }
AllocId(max_id, id) == IF max_id # id - 1 THEN max_id + 1 ELSE id

\* mutant: the lookup leaves frecency out of the natural key
MatchingOrigins_NoFrecency(table, origin) ==
    {r \in table : r.prefix = origin.prefix /\ r.host = origin.host}

\* select id from moz_origins where prefix, host and frecency match
MatchingOrigins(table, origin) ==
    {r \in table : /\ r.prefix = origin.prefix
                   /\ r.host = origin.host
                   /\ r.frecency = origin.frecency}

\* new_id = Some(result) for every result row: the last row wins (rowid order)
LastMatch(table, origin) == MaxOf(Ids(MatchingOrigins(table, origin)))

\* mutant: an origin found by its natural key is not inserted, but keeps the
\* id it had in the snapshot
origin_turn_KeepIdOnMatch(table, origin) ==
    IF MatchingOrigins(table, origin) # {}
    THEN [err |-> OK, row |-> origin, insert |-> FALSE]
    ELSE IF SqlMaxId(table) = NULL
    THEN [err |-> ErrNullMax, row |-> origin, insert |-> FALSE]
    ELSE [err |-> OK,
          row |-> [origin EXCEPT !.id = AllocId(SqlMaxId(table), origin.id)],
          insert |-> TRUE]

\* mutant: no lookup by natural key, every origin is given a new id and inserted
origin_turn_NoDedup(table, origin) ==
    IF SqlMaxId(table) = NULL
    THEN [err |-> ErrNullMax, row |-> origin, insert |-> FALSE]
    ELSE [err |-> OK,
          row |-> [origin EXCEPT !.id = AllocId(SqlMaxId(table), origin.id)],
          insert |-> TRUE]

\* One turn of the loop of insert_new_origins: the outcome, the origin as it is
\* left in the map, and the row inserted (if any).
origin_turn(table, origin) ==
    IF MatchingOrigins(table, origin) # {}
    THEN [err |-> OK, row |-> [origin EXCEPT !.id = LastMatch(table, origin)],
          insert |-> FALSE]
    ELSE IF SqlMaxId(table) = NULL
    THEN [err |-> ErrNullMax, row |-> origin, insert |-> FALSE]
    ELSE [err |-> OK,
          row |-> [origin EXCEPT !.id = AllocId(SqlMaxId(table), origin.id)],
          insert |-> TRUE]

\* mutant: the place keeps the origin_id it had in the snapshot (the missing
\* reference is still reported)
PlaceOriginRef_BySnapshotId(place, origins) ==
    IF origins.some /\ place.origin_id # NULL
    THEN IF place.origin_id \in DOMAIN origins.val
         THEN Some(place.origin_id)
         ELSE None
    ELSE Some(place.origin_id)

\* the origin_id a place is inserted with: looked up in the origin map when
\* there is one, kept as it is otherwise
PlaceOriginRef(place, origins) ==
    IF origins.some /\ place.origin_id # NULL
    THEN IF place.origin_id \in DOMAIN origins.val
         THEN Some(origins.val[place.origin_id].id)
         ELSE None
    ELSE Some(place.origin_id)

\* mutant: the maximum of an empty table is taken as 0 (coalesce(max(id), 0))
place_turn_FromZero(table, place, origins) ==
    LET max_id == IF table = {} THEN 0 ELSE MaxOf(Ids(table))
        moved == [place EXCEPT !.id = AllocId(max_id, place.id)]
        ref == PlaceOriginRef(place, origins)
    IN  IF ~ref.some
        THEN [err |-> ErrOrigin, row |-> moved, insert |-> FALSE]
        ELSE [err |-> OK, row |-> [moved EXCEPT !.origin_id = ref.val],
              insert |-> TRUE]

\* mutant: a place whose guid is already in the table is mapped to that row
\* and not inserted again
place_turn_Dedup(table, place, origins) ==
    IF \E r \in table : r.guid = place.guid
    THEN [err |-> OK,
          row |-> [place EXCEPT !.id = (CHOOSE r \in table : r.guid = place.guid).id],
          insert |-> FALSE]
    ELSE IF SqlMaxId(table) = NULL
    THEN [err |-> ErrNullMax, row |-> place, insert |-> FALSE]
    ELSE LET moved == [place EXCEPT !.id = AllocId(SqlMaxId(table), place.id)]
             ref == PlaceOriginRef(place, origins)
         IN  IF ~ref.some
             THEN [err |-> ErrOrigin, row |-> moved, insert |-> FALSE]
             ELSE [err |-> OK, row |-> [moved EXCEPT !.origin_id = ref.val],
                   insert |-> TRUE]

\* One turn of the loop of insert_new_places.
place_turn(table, place, origins) ==
    IF SqlMaxId(table) = NULL
    THEN [err |-> ErrNullMax, row |-> place, insert |-> FALSE]
    ELSE LET moved == [place EXCEPT !.id = AllocId(SqlMaxId(table), place.id)]
             ref == PlaceOriginRef(place, origins)
         IN  IF ~ref.some
             THEN [err |-> ErrOrigin, row |-> moved, insert |-> FALSE]
             ELSE [err |-> OK, row |-> [moved EXCEPT !.origin_id = ref.val],
                   insert |-> TRUE]

\* the fk a bookmark is inserted with
BookmarkPlaceRef(bookmark, places) ==
    IF places.some /\ bookmark.fk # NULL
    THEN IF bookmark.fk \in DOMAIN places.val
         THEN Some(places.val[bookmark.fk].id)
         ELSE None
    ELSE Some(bookmark.fk)

\* mutant: the parent reference is moved along with the id
bookmark_turn_Reparent(table, bookmark, places) ==
    IF SqlMaxId(table) = NULL
    THEN [err |-> ErrNullMax, row |-> bookmark, insert |-> FALSE]
    ELSE LET new_id == AllocId(SqlMaxId(table), bookmark.id)
             moved == [bookmark EXCEPT
                          !.id = new_id,
                          !.parent = IF bookmark.parent = NULL THEN NULL
                                     ELSE bookmark.parent + (new_id - bookmark.id)]
             ref == BookmarkPlaceRef(bookmark, places)
         IN  IF ~ref.some
             THEN [err |-> ErrPlace, row |-> moved, insert |-> FALSE]
             ELSE [err |-> OK, row |-> [moved EXCEPT !.fk = ref.val],
                   insert |-> TRUE]

\* mutant: the bookmark keeps its snapshot id
bookmark_turn_KeepId(table, bookmark, places) ==
    IF SqlMaxId(table) = NULL
    THEN [err |-> ErrNullMax, row |-> bookmark, insert |-> FALSE]
    ELSE LET ref == BookmarkPlaceRef(bookmark, places)
         IN  IF ~ref.some
             THEN [err |-> ErrPlace, row |-> bookmark, insert |-> FALSE]
             ELSE [err |-> OK, row |-> [bookmark EXCEPT !.fk = ref.val],
                   insert |-> TRUE]

\* One turn of the loop of insert_new_bookmarks.
bookmark_turn(table, bookmark, places) ==
    IF SqlMaxId(table) = NULL
    THEN [err |-> ErrNullMax, row |-> bookmark, insert |-> FALSE]
    ELSE LET moved == [bookmark EXCEPT !.id = AllocId(SqlMaxId(table), bookmark.id)]
             ref == BookmarkPlaceRef(bookmark, places)
         IN  IF ~ref.some
             THEN [err |-> ErrPlace, row |-> moved, insert |-> FALSE]
             ELSE [err |-> OK, row |-> [moved EXCEPT !.fk = ref.val],
                   insert |-> TRUE]

\* history entry of an insert: the table and the ids it held just before, the
\* map key (vector index) of the entry, the entry as fetched, the row inserted
Inserted(name, table, key, src, row) ==
    [table |-> name, before |-> Ids(table), key |-> key, src |-> src, row |-> row]

MapKeys(opt) == IF opt.some THEN DOMAIN opt.val ELSE {}

\* ------------------------------------------------------------------ insert_new_entries

\* if let Some(..) = new_origins: nothing to do when no origin was fetched
OriginsSkip ==
    /\ pc = "origins"
    /\ ~new_origins.some
    /\ result' = [result EXCEPT !["origins"] = "skipped"]
    /\ pc' = "places"
    /\ todo' = MapKeys(new_places)
    /\ UNCHANGED <<snapshot, destination, bookmarks_sync, latest_bookmark, delta,
                   idx, failed, log, original, previous>>

\* mutant: an error of the origin stage is returned at once (with ?), the
\* place stage and the bookmark stage are not run
OriginStep_Abort ==
    /\ pc = "origins"
    /\ new_origins.some
    /\ \E k \in todo :
        LET turn == origin_turn(dOrigins, new_origins.val[k])
            last == (todo = {k}) \/ (turn.err # OK)
        IN  /\ new_origins' = Some([new_origins.val EXCEPT ![k] = turn.row])
            /\ dOrigins' = IF turn.insert THEN dOrigins \cup {turn.row} ELSE dOrigins
            /\ log' = IF turn.insert
                      THEN Append(log, Inserted("origins", dOrigins, k, new_origins.val[k], turn.row))
                      ELSE log
            /\ failed' = IF turn.err # OK THEN [failed EXCEPT !["origins"] = k] ELSE failed
            /\ result' = IF turn.err # OK
                         THEN [result EXCEPT !["origins"] = turn.err, !["entries"] = turn.err]
                         ELSE IF last THEN [result EXCEPT !["origins"] = turn.err]
                         ELSE result
            /\ pc' = IF turn.err # OK THEN "done" ELSE IF last THEN "places" ELSE "origins"
            /\ todo' = IF last THEN MapKeys(new_places) ELSE todo \ {k}
    /\ UNCHANGED <<snapshot, dBookmarks, dPlaces, bookmarks_sync, latest_bookmark,
                   new_bookmarks, new_places, idx, original, previous>>

\* insert_new_origins, one origin of the map per step, in any order
OriginStep ==
    /\ pc = "origins"
    /\ new_origins.some
    /\ \E k \in todo :
        LET turn == origin_turn(dOrigins, new_origins.val[k])
            last == (todo = {k}) \/ (turn.err # OK)
        IN  /\ new_origins' = Some([new_origins.val EXCEPT ![k] = turn.row])
            /\ dOrigins' = IF turn.insert THEN dOrigins \cup {turn.row} ELSE dOrigins
            /\ log' = IF turn.insert
                      THEN Append(log, Inserted("origins", dOrigins, k, new_origins.val[k], turn.row))
                      ELSE log
            /\ failed' = IF turn.err # OK THEN [failed EXCEPT !["origins"] = k] ELSE failed
            /\ result' = IF last THEN [result EXCEPT !["origins"] = turn.err] ELSE result
            /\ pc' = IF last THEN "places" ELSE "origins"
            /\ todo' = IF last THEN MapKeys(new_places) ELSE todo \ {k}
    /\ UNCHANGED <<snapshot, dBookmarks, dPlaces, bookmarks_sync, latest_bookmark,
                   new_bookmarks, new_places, idx, original, previous>>

PlacesSkip ==
    /\ pc = "places"
    /\ ~new_places.some
    /\ result' = [result EXCEPT !["places"] = "skipped"]
    /\ pc' = "bookmarks"
    /\ todo' = {}
    /\ UNCHANGED <<snapshot, destination, bookmarks_sync, latest_bookmark, delta,
                   idx, failed, log, original, previous>>

\* mutant: a missing origin reference undoes what the run has inserted so far
PlaceStep_Rollback ==
    /\ pc = "places"
    /\ new_places.some
    /\ \E k \in todo :
        LET turn == place_turn(dPlaces, new_places.val[k], new_origins)
            last == (todo = {k}) \/ (turn.err # OK)
        IN  /\ new_places' = Some([new_places.val EXCEPT ![k] = turn.row])
            /\ dPlaces' = IF turn.err = ErrOrigin THEN original.places
                          ELSE IF turn.insert THEN dPlaces \cup {turn.row} ELSE dPlaces
            /\ dOrigins' = IF turn.err = ErrOrigin THEN original.origins ELSE dOrigins
            /\ log' = IF turn.insert
                      THEN Append(log, Inserted("places", dPlaces, k, new_places.val[k], turn.row))
                      ELSE log
            /\ failed' = IF turn.err # OK THEN [failed EXCEPT !["places"] = k] ELSE failed
            /\ result' = IF last THEN [result EXCEPT !["places"] = turn.err] ELSE result
            /\ pc' = IF last THEN "bookmarks" ELSE "places"
            /\ todo' = IF last THEN {} ELSE todo \ {k}
    /\ UNCHANGED <<snapshot, dBookmarks, bookmarks_sync, latest_bookmark,
                   new_bookmarks, new_origins, idx, original, previous>>

\* insert_new_places, one place of the map per step, in any order
PlaceStep ==
    /\ pc = "places"
    /\ new_places.some
    /\ \E k \in todo :
        LET turn == place_turn(dPlaces, new_places.val[k], new_origins)
            last == (todo = {k}) \/ (turn.err # OK)
        IN  /\ new_places' = Some([new_places.val EXCEPT ![k] = turn.row])
            /\ dPlaces' = IF turn.insert THEN dPlaces \cup {turn.row} ELSE dPlaces
            /\ log' = IF turn.insert
                      THEN Append(log, Inserted("places", dPlaces, k, new_places.val[k], turn.row))
                      ELSE log
            /\ failed' = IF turn.err # OK THEN [failed EXCEPT !["places"] = k] ELSE failed
            /\ result' = IF last THEN [result EXCEPT !["places"] = turn.err] ELSE result
            /\ pc' = IF last THEN "bookmarks" ELSE "places"
            /\ todo' = IF last THEN {} ELSE todo \ {k}
    /\ UNCHANGED <<snapshot, dBookmarks, dOrigins, bookmarks_sync, latest_bookmark,
                   new_bookmarks, new_origins, idx, original, previous>>

\* the end of insert_new_entries: Ok(()) whatever the stages returned
BookmarksSkip ==
    /\ pc = "bookmarks"
    /\ ~new_bookmarks.some
    /\ result' = [result EXCEPT !["bookmarks"] = "skipped", !["entries"] = OK]
    /\ pc' = "done"
    /\ UNCHANGED <<snapshot, destination, bookmarks_sync, latest_bookmark, delta,
                   todo, idx, failed, log, original, previous>>

\* mutant: a bookmark that fails is skipped and the loop goes on (continue
\* instead of return)
BookmarkStep_SkipFailed ==
    /\ pc = "bookmarks"
    /\ new_bookmarks.some
    /\ LET turn == bookmark_turn(dBookmarks, new_bookmarks.val[idx], new_places)
           last == idx = Len(new_bookmarks.val)
           err == IF turn.err # OK THEN turn.err
                  ELSE IF failed["bookmarks"] # NULL THEN ErrPlace ELSE OK
       IN  /\ new_bookmarks' = Some([new_bookmarks.val EXCEPT ![idx] = turn.row])
           /\ dBookmarks' = IF turn.insert THEN dBookmarks \cup {turn.row} ELSE dBookmarks
           /\ log' = IF turn.insert
                     THEN Append(log, Inserted("bookmarks", dBookmarks, idx,
                                           new_bookmarks.val[idx], turn.row))
                     ELSE log
           /\ failed' = IF turn.err # OK /\ failed["bookmarks"] = NULL
                        THEN [failed EXCEPT !["bookmarks"] = idx]
                        ELSE failed
           /\ result' = IF last
                        THEN [result EXCEPT !["bookmarks"] = err, !["entries"] = OK]
                        ELSE result
           /\ pc' = IF last THEN "done" ELSE "bookmarks"
           /\ idx' = IF last THEN idx ELSE idx + 1
    /\ UNCHANGED <<snapshot, dPlaces, dOrigins, bookmarks_sync, latest_bookmark,
                   new_places, new_origins, todo, original, previous>>

\* insert_new_bookmarks, one bookmark of the vector per step, in vector order
BookmarkStep ==
    /\ pc = "bookmarks"
    /\ new_bookmarks.some
    /\ LET turn == bookmark_turn(dBookmarks, new_bookmarks.val[idx], new_places)
           last == (idx = Len(new_bookmarks.val)) \/ (turn.err # OK)
       IN  /\ new_bookmarks' = Some([new_bookmarks.val EXCEPT ![idx] = turn.row])
           /\ dBookmarks' = IF turn.insert THEN dBookmarks \cup {turn.row} ELSE dBookmarks
           /\ log' = IF turn.insert
                     THEN Append(log, Inserted("bookmarks", dBookmarks, idx,
                                           new_bookmarks.val[idx], turn.row))
                     ELSE log
           /\ failed' = IF turn.err # OK THEN [failed EXCEPT !["bookmarks"] = idx] ELSE failed
           /\ result' = IF last
                        THEN [result EXCEPT !["bookmarks"] = turn.err, !["entries"] = OK]
                        ELSE result
           /\ pc' = IF last THEN "done" ELSE "bookmarks"
           /\ idx' = IF last THEN idx ELSE idx + 1
    /\ UNCHANGED <<snapshot, dPlaces, dOrigins, bookmarks_sync, latest_bookmark,
                   new_places, new_origins, todo, original, previous>>

\* A second call of get_new_entries and insert_new_entries with the anchor of
\* the first, on the unchanged snapshot and the destination the first call left.
Rerun ==
    /\ pc = "done"
    /\ result["entries"] = OK
    /\ ~previous.some
    /\ previous' = Some([new_bookmarks |-> new_bookmarks, new_places |-> new_places,
                         new_origins |-> new_origins, result |-> result,
                         log |-> log, original |-> original])
    /\ original' = [bookmarks |-> dBookmarks, places |-> dPlaces, origins |-> dOrigins]
    /\ pc' = "fetch"
    /\ new_bookmarks' = None
    /\ new_places' = None
    /\ new_origins' = None
    /\ todo' = {}
    /\ idx' = 1
    /\ result' = [s \in Stages |-> "pending"]
    /\ failed' = [s \in Stages |-> NULL]
    /\ log' = <<>>
    /\ UNCHANGED <<snapshot, destination, bookmarks_sync, latest_bookmark>>

Next ==
    \/ ReadAnchor
    \/ Launch
    \/ Fetch
    \/ OriginsSkip
    \/ OriginStep
    \/ PlacesSkip
    \/ PlaceStep
    \/ BookmarksSkip
    \/ BookmarkStep

Spec == Init /\ [][Next]_vars

\* the engine called twice in a row
NextTwice == Next \/ Rerun

SpecTwice == Init /\ [][NextTwice]_vars

\* ------------------------------------------------------------------ properties

\* the rows the run has added to the destination store
InsertedOrigins == dOrigins \ original.origins
InsertedPlaces == dPlaces \ original.places
InsertedBookmarks == dBookmarks \ original.bookmarks

\* the history entries of one table
Entries(name) == {i \in DOMAIN log : log[i].table = name}

NaturalKey(o) == <<o.prefix, o.host, o.frecency>>

\* every reference of the snapshot store resolves within the snapshot store
SnapshotIntact ==
    /\ \A b \in sBookmarks : b.fk # NULL => b.fk \in Ids(sPlaces)
    /\ \A p \in sPlaces : p.origin_id # NULL => p.origin_id \in Ids(sOrigins)

\* C1: when insert_new_entries has returned, every place the run inserted with
\* a non-null origin_id references an origin row of the destination store, and
\* every bookmark it inserted with a non-null fk references a place row of the
\* destination store (stated for the snapshots whose own references all
\* resolve, where a dangling reference can only come from the engine).
C1_ReferentialIntegrity ==
    (pc = "done" /\ SnapshotIntact) =>
        /\ \A p \in InsertedPlaces :
              p.origin_id # NULL => p.origin_id \in Ids(dOrigins)
        /\ \A b \in InsertedBookmarks :
              b.fk # NULL => b.fk \in Ids(dPlaces)

\* C2: every step that adds a row to a destination table gives it the id
\* max+1 of the ids the table holds at that moment (so above all of them),
\* rows added earlier in the same run included.
AllocatedAbove(before, after) ==
    \A r \in after \ before :
        /\ before # {}
        /\ r.id = MaxOf(Ids(before)) + 1
        /\ \A x \in before : x.id < r.id

C2_MonotonicAllocation ==
    [][/\ AllocatedAbove(dOrigins, dOrigins')
       /\ AllocatedAbove(dPlaces, dPlaces')
       /\ AllocatedAbove(dBookmarks, dBookmarks')]_vars

\* C2 witness: in each table a second row was inserted right above the first
\* row of the same run, and rows went in under another id than the one they
\* had in the snapshot.
C2_Witness ==
    /\ \A name \in {"origins", "places", "bookmarks"} :
          \E i, j \in Entries(name) :
              /\ i < j
              /\ log[j].row.id = log[i].row.id + 1
              /\ log[i].row.id \in log[j].before
    /\ \E i \in Entries("origins") : log[i].row.id # log[i].src.id
    /\ \E i \in Entries("places") : log[i].row.id # log[i].src.id

\* C3: once insert_new_origins has returned, every origin of the batch whose
\* natural key was in the destination origins table before the run carries the
\* id of a destination row with that key, and no row was inserted for it.
C3_OriginDedup ==
    (pc \in {"places", "bookmarks", "done"} /\ new_origins.some) =>
        \A k \in DOMAIN new_origins.val :
            LET src == RowWithId(sOrigins, k)
                same == {r \in original.origins : NaturalKey(r) = NaturalKey(src)}
            IN  same # {} =>
                    /\ new_origins.val[k].id \in Ids(same)
                    /\ {r \in dOrigins : NaturalKey(r) = NaturalKey(src)} = same
                    /\ \A i \in Entries("origins") : log[i].key # k

\* C3 witness: the stage has returned, an origin of the batch was mapped to a
\* destination row with another id than its snapshot id, and nothing was
\* inserted for it.
C3_Witness ==
    /\ pc = "places"
    /\ new_origins.some
    /\ \E k \in DOMAIN new_origins.val :
          /\ \E r \in original.origins :
                /\ NaturalKey(r) = NaturalKey(RowWithId(sOrigins, k))
                /\ r.id # k
                /\ new_origins.val[k].id = r.id
          /\ InsertedOrigins = {}

\* C4: when insert_new_origins has returned in a second run on the same input,
\* the second run has inserted no origin row and every origin of the batch
\* carries the id it ended with in the first run.
C4_OriginIdempotent ==
    (previous.some /\ pc \in {"places", "bookmarks", "done"} /\ new_origins.some) =>
        /\ dOrigins = original.origins
        /\ Entries("origins") = {}
        /\ DOMAIN new_origins.val = DOMAIN previous.val.new_origins.val
        /\ \A k \in DOMAIN new_origins.val :
              new_origins.val[k].id = previous.val.new_origins.val[k].id

\* C4 witness: the origin stage of the second run has returned; the first run
\* had inserted an origin row and had mapped an origin to another id.
C4_Witness ==
    /\ previous.some
    /\ pc = "places"
    /\ new_origins.some
    /\ result["origins"] = OK
    /\ \E i \in DOMAIN previous.val.log : previous.val.log[i].table = "origins"
    /\ \E k \in DOMAIN new_origins.val : new_origins.val[k].id # k

\* C5: when insert_new_entries has returned, every place the run inserted that
\* referenced an origin in the snapshot carries, as origin_id, the id of a
\* destination origin row with the natural key of that snapshot origin (stated
\* for the snapshots whose own references all resolve).
C5_PlaceOriginRewritten ==
    (pc = "done" /\ SnapshotIntact) =>
        \A i \in Entries("places") :
            log[i].src.origin_id # NULL =>
                \E r \in dOrigins :
                    /\ r.id = log[i].row.origin_id
                    /\ NaturalKey(r) =
                          NaturalKey(RowWithId(sOrigins, log[i].src.origin_id))

\* C6: when insert_new_entries has returned, every bookmark the run inserted
\* that referenced a place in the snapshot carries, as fk, the id under which
\* that snapshot place was inserted into the destination (stated for the
\* snapshots whose own references all resolve).
C6_BookmarkFkRewritten ==
    (pc = "done" /\ SnapshotIntact) =>
        \A i \in Entries("bookmarks") :
            log[i].src.fk # NULL =>
                \E j \in Entries("places") :
                    /\ log[j].key = log[i].src.fk
                    /\ log[j].row.id = log[i].row.fk

\* the fetched places whose origin reference is no key of the fetched origin map
PlacesWithoutOrigin ==
    {k \in MapKeys(new_places) :
        /\ RowWithId(sPlaces, k).origin_id # NULL
        /\ RowWithId(sPlaces, k).origin_id \notin MapKeys(new_origins)}

\* the fetched bookmarks (vector positions) whose fk is no key of the fetched
\* place map
BookmarksWithoutPlace ==
    {i \in (IF new_bookmarks.some THEN DOMAIN new_bookmarks.val ELSE {}) :
        LET fetched == get_bookmarks_between_two(sBookmarks, latest_bookmark.val).val
        IN  /\ fetched[i].fk # NULL
            /\ fetched[i].fk \notin MapKeys(new_places)}

\* C7: when origins were fetched and a fetched place references an origin that
\* is not among them, the place stage returns the missing-reference error, the
\* place is not inserted, and no bookmark that references this place is inserted
\* (stated for a destination places table that holds a row, so that no other
\* error can end the place stage).
C7_ChainedMissingReference ==
    (pc = "done" /\ new_origins.some /\ original.places # {}) =>
        \A k \in PlacesWithoutOrigin :
            /\ result["places"] = ErrOrigin
            /\ \A i \in Entries("places") : log[i].key # k
            /\ \A i \in Entries("bookmarks") : log[i].src.fk # k

\* C8: once insert_new_places has returned, for every place whose non-null
\* origin_id is no key of the origin set (the set may be absent), the stage
\* has returned an error and the place was not inserted.
C8_PlaceMissingReference ==
    (pc \in {"bookmarks", "done"}) =>
        \A k \in PlacesWithoutOrigin :
            /\ result["places"] \in {ErrOrigin, ErrNullMax}
            /\ \A i \in Entries("places") : log[i].key # k

\* C9: once insert_new_bookmarks has returned, for every bookmark whose
\* non-null fk is no key of the place set (the set may be absent), the stage
\* has returned an error and the bookmark was not inserted.
C9_BookmarkMissingReference ==
    (pc = "done") =>
        \A b \in BookmarksWithoutPlace :
            /\ result["bookmarks"] \in {ErrPlace, ErrNullMax}
            /\ \A i \in Entries("bookmarks") : log[i].key # b

\* get_new_entries has returned
Fetched ==
    \/ pc \in {"origins", "places", "bookmarks"}
    \/ pc = "done" /\ result["entries"] = OK

\* C10: when the snapshot holds no bookmark, or the anchor's id is at least the
\* id of the snapshot's latest bookmark, get_new_entries returns None for the
\* bookmarks, the places and the origins.
C10_NoDelta ==
    Fetched =>
        ((sBookmarks = {} \/ latest_bookmark.val.id >= MaxOf(Ids(sBookmarks))) =>
            /\ ~new_bookmarks.some
            /\ ~new_places.some
            /\ ~new_origins.some)

\* C10 witness: the fetch has run on a snapshot whose latest bookmark lies
\* below the anchor, and returned nothing.
C10_Witness ==
    /\ pc = "origins"
    /\ sBookmarks # {}
    /\ latest_bookmark.val.id > MaxOf(Ids(sBookmarks))
    /\ ~new_bookmarks.some

\* the rows of an optional vector (none when it is absent)
RowsOf(opt) == IF opt.some THEN {opt.val[i] : i \in DOMAIN opt.val} ELSE {}

\* C11: the bookmarks get_bookmarks_between_two has returned (they are left as
\* fetched until the bookmark stage) are exactly the snapshot rows whose id is
\* above the anchor's id and at most the snapshot's largest id, and they stand
\* in strictly ascending id order.
C11_DeltaRange ==
    (pc \in {"origins", "places"}) =>
        /\ RowsOf(new_bookmarks) =
              {b \in sBookmarks : /\ latest_bookmark.val.id < b.id
                                  /\ b.id <= MaxOf(Ids(sBookmarks))}
        /\ new_bookmarks.some =>
              \A i, j \in DOMAIN new_bookmarks.val :
                  i < j => new_bookmarks.val[i].id < new_bookmarks.val[j].id

\* C11 witness: two bookmarks were fetched from a snapshot that also holds
\* bookmarks at or below the anchor.
C11_Witness ==
    /\ pc = "origins"
    /\ new_bookmarks.some
    /\ Len(new_bookmarks.val) >= 2
    /\ \E b \in sBookmarks : b.id <= latest_bookmark.val.id

\* C12: the n-th bookmark a run inserts is the n-th bookmark of the batch and
\* goes in under the id (largest bookmark id of the destination before the
\* run) + n; its fk is the id the place map holds for the place it referenced.
C12_OrderPreservingAllocation ==
    \A i \in Entries("bookmarks") :
        LET n == Cardinality({j \in Entries("bookmarks") : j <= i})
        IN  /\ original.bookmarks # {}
            /\ log[i].key = n
            /\ log[i].row.id = MaxOf(Ids(original.bookmarks)) + n
            /\ (new_places.some /\ log[i].src.fk # NULL) =>
                  log[i].row.fk = new_places.val[log[i].src.fk].id

\* C12 witness: a run has inserted two bookmarks whose batch ids are not above
\* the destination's largest id, both under a new id and with a rewritten fk.
C12_Witness ==
    /\ pc = "done"
    /\ \E i, j \in Entries("bookmarks") :
          /\ i < j
          /\ log[j].row.id = log[i].row.id + 1
          /\ \A e \in {i, j} :
                /\ log[e].src.id <= MaxOf(Ids(original.bookmarks))
                /\ log[e].row.id # log[e].src.id
                /\ log[e].src.fk # NULL
                /\ log[e].row.fk # log[e].src.fk

\* C13: when insert_new_bookmarks has returned an error, insert_new_entries
\* does not return Ok to its caller.
C13_BookmarkErrorPropagated ==
    (pc = "done" /\ result["bookmarks"] \in {ErrPlace, ErrNullMax}) =>
        result["entries"] # OK

\* the outcomes of a stage that was run (its loop took at least one turn)
Attempted == {OK, ErrNullMax, ErrOrigin, ErrPlace}

\* C14: when the run is over, the place stage was run if places were fetched
\* and the bookmark stage was run if bookmarks were fetched, whatever the
\* stage before it returned.
C14_FailSoftChaining ==
    (pc = "done" /\ new_bookmarks.some) =>
        /\ new_places.some => result["places"] \in Attempted
        /\ result["bookmarks"] \in Attempted

\* C14 witness: the origin stage and the place stage both returned an error,
\* and the bookmark stage still inserted a bookmark.
C14_Witness ==
    /\ pc = "done"
    /\ result["origins"] \in Attempted \ {OK}
    /\ result["places"] \in Attempted \ {OK}
    /\ Entries("bookmarks") # {}

\* C15: a step that writes to the destination store is taken after the fetch
\* and leaves the fetched key sets as they are; a step that inserts an origin
\* belongs to the origin stage, a step that inserts a place is taken when the
\* origin stage has ended, and a step that inserts a bookmark is taken when
\* the origin stage and the place stage have ended.
C15_DependencyOrder ==
    [][/\ destination' # destination =>
              /\ pc \in {"origins", "places", "bookmarks"}
              /\ new_bookmarks.some
              /\ MapKeys(new_bookmarks') = MapKeys(new_bookmarks)
              /\ MapKeys(new_places') = MapKeys(new_places)
              /\ MapKeys(new_origins') = MapKeys(new_origins)
       /\ dOrigins' # dOrigins =>
              pc = "origins" /\ result["origins"] = "pending"
       /\ dPlaces' # dPlaces =>
              pc = "places" /\ result["origins"] # "pending"
       /\ dBookmarks' # dBookmarks =>
              /\ pc = "bookmarks"
              /\ result["origins"] # "pending"
              /\ result["places"] # "pending"]_vars

\* C15 witness: a run has inserted an origin, then a place, then a bookmark.
C15_Witness ==
    /\ pc = "done"
    /\ \E i \in Entries("origins"), j \in Entries("places"), k \in Entries("bookmarks") :
          i < j /\ j < k

\* C16: no step changes the snapshot store, and every step leaves each row of
\* the destination store in its table as it is (a table only gains rows).
C16_Frame ==
    [][/\ snapshot' = snapshot
       /\ dOrigins \subseteq dOrigins'
       /\ dPlaces \subseteq dPlaces'
       /\ dBookmarks \subseteq dBookmarks']_vars

\* C16 witness: the place stage has ended with the missing-reference error
\* after the origin stage had inserted a row, and the store still holds its
\* rows from before the run.
C16_Witness ==
    /\ pc = "done"
    /\ result["places"] = ErrOrigin
    /\ InsertedOrigins # {}
    /\ original.origins # {}
    /\ original.places # {}
    /\ original.bookmarks # {}

\* C17: of what get_new_entries has returned, a tier that is present holds at
\* least one row; without bookmarks there are neither places nor origins, and
\* without places there are no origins.
C17_AbsentOrNonEmpty ==
    Fetched =>
        /\ new_bookmarks.some => Len(new_bookmarks.val) > 0
        /\ new_places.some => DOMAIN new_places.val # {}
        /\ new_origins.some => DOMAIN new_origins.val # {}
        /\ ~new_bookmarks.some => (~new_places.some /\ ~new_origins.some)
        /\ ~new_places.some => ~new_origins.some

\* C17 witness: bookmarks were fetched and reference a place, but the lookup
\* found no place row: the places are absent, and so are the origins.
C17_Witness ==
    /\ pc = "origins"
    /\ new_bookmarks.some
    /\ \E i \in DOMAIN new_bookmarks.val : new_bookmarks.val[i].fk # NULL
    /\ ~new_places.some
    /\ ~new_origins.some

\* get_new_entries has returned and no reconciler has taken a turn yet
JustFetched == pc = "origins" /\ todo = MapKeys(new_origins)

\* C18: in what get_new_entries has returned, the keys of the place map are
\* the non-null fks of the fetched bookmarks that are ids of snapshot places,
\* the keys of the origin map are the non-null origin_ids of the fetched places
\* that are ids of snapshot origins, and each key leads to the snapshot row
\* with that id.
C18_DependentFetch ==
    JustFetched =>
        /\ MapKeys(new_places) =
              ({b.fk : b \in RowsOf(new_bookmarks)} \ {NULL}) \cap Ids(sPlaces)
        /\ \A k \in MapKeys(new_places) :
              new_places.val[k] \in sPlaces /\ new_places.val[k].id = k
        /\ MapKeys(new_origins) =
              ({new_places.val[k].origin_id : k \in MapKeys(new_places)} \ {NULL})
                  \cap Ids(sOrigins)
        /\ \A k \in MapKeys(new_origins) :
              new_origins.val[k] \in sOrigins /\ new_origins.val[k].id = k

\* C18 witness: two fetched bookmarks reference the same place and one entry
\* was fetched for it; its origin, whose id differs from the place's, was
\* fetched too.
C18_Witness ==
    /\ JustFetched
    /\ new_bookmarks.some /\ new_places.some /\ new_origins.some
    /\ \E i, j \in DOMAIN new_bookmarks.val :
          /\ i # j
          /\ new_bookmarks.val[i].fk = new_bookmarks.val[j].fk
          /\ DOMAIN new_places.val = {new_bookmarks.val[i].fk}
    /\ \E k \in DOMAIN new_places.val : new_places.val[k].origin_id # k
    /\ Cardinality(DOMAIN new_origins.val) = 1

\* C19: when get_latest_bookmark has returned from the original store, it has
\* returned nothing exactly if the bookmarks table is empty and otherwise the
\* row of the table with the largest id, and the store is as it was.
C19_AnchorResolver ==
    (pc = "launch" /\ bookmarks_sync) =>
        /\ latest_bookmark.some <=> dBookmarks # {}
        /\ latest_bookmark.some =>
              /\ latest_bookmark.val \in dBookmarks
              /\ \A b \in dBookmarks : b.id <= latest_bookmark.val.id
        /\ dBookmarks = original.bookmarks
        /\ dPlaces = original.places
        /\ dOrigins = original.origins

\* C19 witness: the anchor was read from a table of two bookmarks.
C19_Witness ==
    /\ pc = "launch"
    /\ bookmarks_sync
    /\ Cardinality(dBookmarks) >= 2
    /\ latest_bookmark.some

\* the second of two runs is over
SecondRunDone == previous.some /\ pc = "done"

\* the batch entry with this key was inserted into the table by the first run
\* and again by the second, under an id the table did not hold, the row of
\* the first run being still there
InsertedTwice(name, key, before) ==
    \E i \in Entries(name), j \in DOMAIN previous.val.log :
        /\ log[i].key = key
        /\ previous.val.log[j].table = name
        /\ previous.val.log[j].key = key
        /\ log[i].row.id \notin Ids(before)
        /\ previous.val.log[j].row \in before
        /\ log[i].row.guid = previous.val.log[j].row.guid

\* C20: after the second run every fetched place and every fetched bookmark
\* has been inserted twice, and the second run added no origin (stated for the
\* snapshots whose own references all resolve, where no reference can be
\* missing from the batch).
C20_NoDedupAlways ==
    (SecondRunDone /\ SnapshotIntact) =>
        /\ dOrigins = original.origins
        /\ \A k \in MapKeys(new_places) :
              InsertedTwice("places", k, original.places)
        /\ \A k \in MapKeys(new_bookmarks) :
              InsertedTwice("bookmarks", k, original.bookmarks)

\* C20 for the stages that returned Ok: after the second run, the second run
\* has added no origin; if its place stage returned Ok, every fetched place
\* has been inserted twice; if its bookmark stage returned Ok, every fetched
\* bookmark has been inserted twice.
C20_NoDedup ==
    SecondRunDone =>
        /\ dOrigins = original.origins
        /\ result["places"] = OK =>
              \A k \in MapKeys(new_places) :
                  InsertedTwice("places", k, original.places)
        /\ result["bookmarks"] = OK =>
              \A k \in MapKeys(new_bookmarks) :
                  InsertedTwice("bookmarks", k, original.bookmarks)

\* a second run with no failure: both runs inserted an origin-referencing
\* place and a bookmark, the first run had inserted an origin, and all stages
\* of the second run returned Ok.
C20_Witness ==
    /\ SecondRunDone
    /\ result["origins"] = OK /\ result["places"] = OK /\ result["bookmarks"] = OK
    /\ \E j \in DOMAIN previous.val.log : previous.val.log[j].table = "origins"
    /\ \E i \in Entries("places") : log[i].src.origin_id # NULL
    /\ Entries("bookmarks") # {}

\* C21: every bookmark row the engine inserts is a row of the snapshot with
\* at most its id and its fk changed: parent and the copied-through columns
\* are those of the snapshot row.
C21_BookmarkOtherFieldsKept ==
    \A i \in Entries("bookmarks") :
        \E b \in sBookmarks :
            /\ log[i].src = b
            /\ log[i].row = [b EXCEPT !.id = log[i].row.id, !.fk = log[i].row.fk]

\* C21 witness: a bookmark was inserted whose parent is a bookmark of the same
\* batch that went in under another id than its snapshot id; the inserted row
\* still carries the snapshot id of the parent.
C21_Witness ==
    \E i, j \in Entries("bookmarks") :
        /\ log[j].src.parent = log[i].src.id
        /\ log[i].row.id # log[i].src.id
        /\ log[j].row.id # log[j].src.id
        /\ log[j].row.parent = log[i].src.id

\* the positions of run before execute_cmd has returned
BeforeExit == {"anchor", "launch"}

\* C22: the anchor is set only by the step before the launch, and only with
\* sync enabled; the launch follows it whatever the stores hold; the delta is
\* fetched and the original store written only by steps after the launch,
\* with sync enabled and an anchor; with sync disabled no step reads the
\* anchor, fetches or writes.
C22_LaunchMergeOrder ==
    [][/\ latest_bookmark' # latest_bookmark =>
              pc = "anchor" /\ bookmarks_sync
       /\ pc = "anchor" => pc' = "launch"
       /\ pc = "launch" => pc' \in {"fetch", "done"}
       /\ pc' = "fetch" => bookmarks_sync /\ latest_bookmark.some
       /\ (delta' # delta \/ destination' # destination) =>
              /\ pc \notin BeforeExit
              /\ bookmarks_sync
              /\ latest_bookmark.some
       /\ ~bookmarks_sync =>
              /\ latest_bookmark' = None
              /\ delta' = <<None, None, None>>
              /\ destination' = destination]_vars

\* C22 witness: with sync enabled the run went through the launch and the
\* merge, a stage of the merge failed and another wrote to the original store.
C22_Witness ==
    /\ pc = "done"
    /\ bookmarks_sync
    /\ latest_bookmark.some
    /\ \E s \in Stages : result[s] \in Attempted \ {OK}
    /\ destination # <<original.bookmarks, original.places, original.origins>>

\* insert_new_origins has returned
OriginStageOver == pc \in {"places", "bookmarks", "done"} /\ new_origins.some

\* the pairs of batch origins (snapshot ids) that share a natural key which no
\* row of the destination had before the run
TwinOrigins ==
    {pair \in MapKeys(new_origins) \X MapKeys(new_origins) :
        /\ pair[1] < pair[2]
        /\ NaturalKey(RowWithId(sOrigins, pair[1])) = NaturalKey(RowWithId(sOrigins, pair[2]))
        /\ \A r \in original.origins :
              NaturalKey(r) # NaturalKey(RowWithId(sOrigins, pair[1]))}

\* one row with the pair's natural key was inserted, and both origins of the
\* pair carry its id
OneRowForBoth(pair) ==
    LET rows == {r \in InsertedOrigins :
                    NaturalKey(r) = NaturalKey(RowWithId(sOrigins, pair[1]))}
    IN  /\ Cardinality(rows) = 1
        /\ \A r \in rows : /\ new_origins.val[pair[1]].id = r.id
                           /\ new_origins.val[pair[2]].id = r.id

\* C23: once insert_new_origins has returned, one row was inserted for every
\* such pair and both of its origins carry that row's id.
C23_InBatchDedupAlways ==
    OriginStageOver => \A pair \in TwinOrigins : OneRowForBoth(pair)

\* C23 for a call that returned Ok: the same, when insert_new_origins returned
\* Ok; and whatever it returned, no two rows of one natural key were inserted.
C23_InBatchDedup ==
    OriginStageOver =>
        /\ result["origins"] = OK => \A pair \in TwinOrigins : OneRowForBoth(pair)
        /\ \A r1, r2 \in InsertedOrigins :
              NaturalKey(r1) = NaturalKey(r2) => r1 = r2

\* a call that returned Ok on a batch with such a pair, where it was the
\* origin with the larger snapshot id that was processed first and inserted
C23_Witness ==
    /\ OriginStageOver
    /\ result["origins"] = OK
    /\ \E pair \in TwinOrigins :
          \E i \in Entries("origins") : log[i].key = pair[2]

\* C24: when insert_new_bookmarks has returned an error at position n of the
\* batch, the bookmarks it has inserted are those at the positions 1..n-1, each
\* once.
C24_PrefixOnFailure ==
    (pc = "done" /\ result["bookmarks"] \in Attempted \ {OK}) =>
        /\ {log[i].key : i \in Entries("bookmarks")} = 1..(failed["bookmarks"] - 1)
        /\ Cardinality(Entries("bookmarks")) = failed["bookmarks"] - 1
        /\ Cardinality(InsertedBookmarks) = failed["bookmarks"] - 1

\* C24 witness: the call failed at the second bookmark of a batch, after it
\* had inserted the first.
C24_Witness ==
    /\ pc = "done"
    /\ result["bookmarks"] = ErrPlace
    /\ failed["bookmarks"] = 2
    /\ Entries("bookmarks") # {}

\* insert_new_places has returned
PlaceStageOver == pc \in {"bookmarks", "done"} /\ new_places.some

\* C25: a call of insert_new_origins on an empty destination origins table
\* has returned the error of reading a NULL max(id), at the first origin it
\* took, has inserted nothing and has left every origin of the batch as
\* fetched; likewise insert_new_places on an empty destination places table.
C25_EmptyDestinationTable ==
    /\ (OriginStageOver /\ original.origins = {}) =>
          /\ result["origins"] = ErrNullMax
          /\ dOrigins = {}
          /\ failed["origins"] \in DOMAIN new_origins.val
          /\ \A k \in DOMAIN new_origins.val :
                new_origins.val[k] = RowWithId(sOrigins, k)
    /\ (PlaceStageOver /\ original.places = {}) =>
          /\ result["places"] = ErrNullMax
          /\ dPlaces = {}
          /\ failed["places"] \in DOMAIN new_places.val
          /\ \A k \in DOMAIN new_places.val :
                new_places.val[k] = RowWithId(sPlaces, k)

\* C25 witness: both tables were empty, both stages were called with a batch
\* of two and have returned.
C25_Witness ==
    /\ pc = "done"
    /\ original.origins = {}
    /\ original.places = {}
    /\ new_origins.some /\ Cardinality(DOMAIN new_origins.val) = 2
    /\ new_places.some /\ Cardinality(DOMAIN new_places.val) = 2
    /\ result["origins"] = ErrNullMax
    /\ result["places"] = ErrNullMax

\* insert_new_entries has returned and no stage that ran returned an error
NoStageFailure ==
    /\ pc = "done"
    /\ result["entries"] = OK
    /\ \A s \in {"origins", "places", "bookmarks"} : result[s] \in {OK, "skipped"}

\* what a reference to an origin reaches in an origins table: nothing, the
\* natural key of the row, or no row
OriginContent(origins, id) ==
    IF id = NULL THEN <<"none">>
    ELSE IF id \in Ids(origins)
    THEN <<"origin", NaturalKey(RowWithId(origins, id))>>
    ELSE <<"dangling", id>>

\* what a reference to a place reaches: nothing, the content of the row and
\* what its origin reference reaches, or no row
PlaceContent(places, origins, id) ==
    IF id = NULL THEN <<"none">>
    ELSE IF id \in Ids(places)
    THEN <<"place", RowWithId(places, id).guid,
           OriginContent(origins, RowWithId(places, id).origin_id)>>
    ELSE <<"dangling", id>>

\* the destination store with the ids of the inserted places and origins
\* taken out: the natural keys inserted, the place contents inserted, and the
\* inserted bookmarks with what they reach
ViewOrigins == {NaturalKey(r) : r \in InsertedOrigins}
ViewPlaces == {<<p.guid, OriginContent(dOrigins, p.origin_id)>> : p \in InsertedPlaces}
ViewBookmarks ==
    {<<b.id, b.parent, b.guid, PlaceContent(dPlaces, dOrigins, b.fk)>> :
        b \in InsertedBookmarks}

\* the same three sets, computed from the stores as they were before the run
\* and the key sets of the fetched delta (no processing order enters)
ExpectedOrigins ==
    {NaturalKey(RowWithId(sOrigins, k)) : k \in MapKeys(new_origins)}
        \ {NaturalKey(r) : r \in original.origins}

ExpectedOriginContent(place) ==
    IF place.origin_id = NULL THEN <<"none">>
    ELSE IF new_origins.some
    THEN <<"origin", NaturalKey(RowWithId(sOrigins, place.origin_id))>>
    ELSE OriginContent(original.origins, place.origin_id)

ExpectedPlaces ==
    {<<RowWithId(sPlaces, k).guid, ExpectedOriginContent(RowWithId(sPlaces, k))>> :
        k \in MapKeys(new_places)}

ExpectedPlaceContent(bookmark) ==
    IF bookmark.fk = NULL THEN <<"none">>
    ELSE IF new_places.some
    THEN <<"place", RowWithId(sPlaces, bookmark.fk).guid,
           ExpectedOriginContent(RowWithId(sPlaces, bookmark.fk))>>
    ELSE PlaceContent(original.places, original.origins, bookmark.fk)

ExpectedBookmarks ==
    LET fetched == get_bookmarks_between_two(sBookmarks, latest_bookmark.val)
    IN  IF ~fetched.some THEN {}
        ELSE {<<MaxOf(Ids(original.bookmarks)) + i, fetched.val[i].parent,
                fetched.val[i].guid, ExpectedPlaceContent(fetched.val[i])>> :
                  i \in DOMAIN fetched.val}

\* C26: after a run without stage failure the destination store, with the
\* ids of the inserted places and origins taken out, is determined by the
\* stores before the run: one origin row per new natural key, one place row
\* per fetched place with the origin content of its snapshot row, and the
\* fetched bookmarks, each reaching the place and origin content of its
\* snapshot row.  The order in which the maps were walked does not enter.
C26_OrderIndependence ==
    NoStageFailure =>
        /\ ViewOrigins = ExpectedOrigins
        /\ Cardinality(InsertedOrigins) = Cardinality(ExpectedOrigins)
        /\ ViewPlaces = ExpectedPlaces
        /\ Cardinality(InsertedPlaces) = Cardinality(MapKeys(new_places))
        /\ ViewBookmarks = ExpectedBookmarks

\* C26 witness: a run without stage failure that inserted two origins and two
\* places, both maps walked from the larger key to the smaller, so that the
\* row of the larger key got the smaller id.
C26_Witness ==
    /\ NoStageFailure
    /\ \E i, j \in Entries("origins") :
          i < j /\ log[i].key > log[j].key /\ log[i].row.id < log[j].row.id
    /\ \E i, j \in Entries("places") : i < j /\ log[i].key > log[j].key
    /\ Entries("bookmarks") # {}

====
